---- MODULE Spec2Model ----
(***************************************************************************)
(* Model of udkm1Dsim/xray.py: class Xray.                                 *)
(*                                                                         *)
(* The five stored fields _energy, _wl, _k, _theta, _qz are the variables  *)
(* energy, wl, k, theta, qz.  Floating-point magnitudes are modelled as    *)
(* exact extended rationals <<n, d>> (d = 0 encodes inf, -inf and nan), so *)
(* every relation is checked over the reals the floats approximate.  An    *)
(* angle is modelled by its sine and by whether it lies on the principal   *)
(* branch of arcsin.  The physical constants and unit factors are small    *)
(* rationals standing for the real ones: the code only multiplies and      *)
(* divides by them, and int arithmetic cannot hold 6.6e-34.                *)
(***************************************************************************)
EXTENDS Integers, Sequences, FiniteSets, TLC

VARIABLES energy, wl, k, theta, qz,
          pol_in_state, pol_out_state, pol_in, pol_out,
          err, last, hash_in, key

store == <<energy, wl, k, theta, qz>>
pol   == <<pol_in_state, pol_out_state, pol_in, pol_out>>
vars  == <<energy, wl, k, theta, qz, pol_in_state, pol_out_state, pol_in,
           pol_out, err, last, hash_in, key>>

\* ------------------------------------------------------------------ bounds
\* longest energy / wl / k array written, and most rows of a 2-D theta / qz
MaxLen == 2
\* most columns of a theta / qz input
MaxCols == 1

\* ------------------------------------------------- extended rational floats
Abs(x) == IF x < 0 THEN -x ELSE x

Sgn(x) == IF x < 0 THEN -1 ELSE IF x > 0 THEN 1 ELSE 0

RECURSIVE Gcd(_, _)
Gcd(a, b) == IF b = 0 THEN a ELSE Gcd(b, a % b)

\* <<n, d>> in lowest terms with d >= 0; <<1,0>> = inf, <<-1,0>> = -inf, <<0,0>> = nan
Norm(n, d) ==
    IF d = 0 THEN <<Sgn(n), 0>>
    ELSE LET g == Gcd(Abs(n), Abs(d))
             s == Sgn(d)
         IN  <<(s * n) \div g, (s * d) \div g>>

Num(n) == <<n, 1>>
NaN == <<0, 0>>
IsFinite(x) == x[2] # 0

Mul(x, y) == Norm(x[1] * y[1], x[2] * y[2])

\* IEEE division: x/0 = +-inf, 0/0 = nan, x/inf = 0
Div(x, y) == Norm(x[1] * y[2], x[2] * y[1])

\* x <= y for finite x, y
Leq(x, y) == x[1] * y[2] <= y[1] * x[2]

\* ---------------------------------------------------------------- angles
Ang(s, p) == [s |-> s, p |-> p]
NaNAngle == Ang(NaN, TRUE)

\* np.arcsin: nan outside [-1, 1] (and for nan, inf), else the principal angle
Arcsin(x) ==
    IF IsFinite(x) /\ Leq(Num(-1), x) /\ Leq(x, Num(1)) THEN Ang(x, TRUE)
    ELSE NaNAngle

\* np.sin
Sin(a) == a.s

\* --------------------------------------------------------------- constants
\* scipy constants.h * constants.c, in J m (a small rational stands for 1.986e-25)
HC == <<5, 1>>
\* np.pi (a small rational stands for 3.14159...)
PI == <<3, 1>>
TwoPI == Mul(Num(2), PI)

\* ------------------------------------------------------------- pint units
Dim(u) ==
    CASE u \in {"eV", "J"}      -> "energy"
      [] u \in {"m", "nm"}      -> "length"
      [] u \in {"1/m", "1/nm"}  -> "wavenumber"
      [] u \in {"rad", "deg"}   -> "angle"

\* magnitude of one unit u in base units (J = kg m^2 / s^2, m, 1/m); 1/2 stands
\* for 1.602e-19 J per eV and 1/10 for 1e-9 m per nm
Factor(u) ==
    CASE u = "eV"   -> <<1, 2>>
      [] u = "nm"   -> <<1, 10>>
      [] u = "1/nm" -> <<10, 1>>
      [] OTHER      -> <<1, 1>>

\* Quantity.to(target).magnitude for one element; the caller checks the dimension
Convert(x, from, to) == Div(Mul(x, Factor(from)), Factor(to))

\* Quantity.to_base_units().magnitude for one element: no dimension is asked for
ToBase(x, u) == Mul(x, Factor(u))

\* ------------------------------------------------------------------ arrays
\* A 1-D ndarray is a sequence.  A 2-D ndarray is [nc |-> columns, d |-> rows]:
\* a matrix of zero rows still has a column count, as numpy's shape (0, M).
Mat(nc, d) == [nc |-> nc, d |-> d]
Rows(m) == Len(m.d)
Shape(m) == <<Rows(m), m.nc>>

\* np.tile(a, (n, 1)) of a 1-D array a
Tile(a, n) == Mat(Len(a), [i \in 1..n |-> a])

\* the five fields and the exception a call ended with ("none": it returned)
St(e, w, kk, t, q, x) ==
    [energy |-> e, wl |-> w, k |-> kk, theta |-> t, qz |-> q, err |-> x]

Raise(s, x) == [s EXCEPT !.err = x]

\* ------------------------------------------------------- update_experiment
\* Q_(h*c / wl, 'J').to('eV').magnitude
EnergyFromWlNoConv(w) == Div(HC, w)
EnergyFromWl(w) == Convert(Div(HC, w), "J", "eV")

\* Q_(h*c / (2*pi / k), 'J').to('eV').magnitude
EnergyFromK(x) == Convert(Div(HC, Div(TwoPI, x)), "J", "eV")

\* h*c / self.energy.to('J').magnitude
WlFromEnergy(e) == Div(HC, Convert(e, "eV", "J"))

\* 2*pi / k and 2*pi / wl
WlFromK(x) == Div(TwoPI, x)
KFromWl(w) == Div(TwoPI, w)

EnergyStep(s, caller) ==
    IF s.err # "none" THEN s
    ELSE IF caller # "energy" /\ caller = "wl"
         THEN [s EXCEPT !.energy = [i \in 1..Len(s.wl) |-> EnergyFromWl(s.wl[i])]]
    ELSE IF caller # "energy" /\ caller = "k"
         THEN [s EXCEPT !.energy = [i \in 1..Len(s.k) |-> EnergyFromK(s.k[i])]]
    ELSE s

WlStep(s, caller) ==
    IF s.err # "none" THEN s
    ELSE IF caller # "wl" /\ caller = "energy"
         THEN [s EXCEPT !.wl = [i \in 1..Len(s.energy) |-> WlFromEnergy(s.energy[i])]]
    ELSE IF caller # "wl" /\ caller = "k"
         THEN [s EXCEPT !.wl = [i \in 1..Len(s.k) |-> WlFromK(s.k[i])]]
    ELSE s

KStep(s, caller) ==
    IF s.err # "none" THEN s
    ELSE IF caller # "k" /\ caller \in {"energy", "wl"}
         THEN [s EXCEPT !.k = [i \in 1..Len(s.wl) |-> KFromWl(s.wl[i])]]
    ELSE s

\* np.arcsin(np.outer(wl, qz[0, :]) / np.pi / 4); qz[0, :] of a matrix without
\* rows raises IndexError
ThetaStep(s, caller) ==
    IF s.err # "none" \/ caller = "theta" THEN s
    ELSE IF Rows(s.qz) = 0 THEN Raise(s, "IndexError")
    ELSE [s EXCEPT !.theta =
            Mat(s.qz.nc,
                [i \in 1..Len(s.wl) |->
                   [j \in 1..s.qz.nc |->
                      Arcsin(Div(Div(Mul(s.wl[i], s.qz.d[1][j]), PI), Num(4)))]])]

\* np.outer(2*k, np.sin(theta[0, :]))
QzStepPerRow(s, caller) ==
    IF s.err # "none" \/ caller = "qz" THEN s
    ELSE IF Rows(s.theta) = 0 THEN Raise(s, "IndexError")
    ELSE [s EXCEPT !.qz =
            Mat(s.theta.nc,
                [i \in 1..Len(s.k) |->
                   [j \in 1..s.theta.nc |->
                      Mul(Mul(Num(2), s.k[i]),
                          Sin(s.theta.d[IF i <= Rows(s.theta) THEN i ELSE 1][j]))]])]
QzStep(s, caller) ==
    IF s.err # "none" \/ caller = "qz" THEN s
    ELSE IF Rows(s.theta) = 0 THEN Raise(s, "IndexError")
    ELSE [s EXCEPT !.qz =
            Mat(s.theta.nc,
                [i \in 1..Len(s.k) |->
                   [j \in 1..s.theta.nc |->
                      Mul(Mul(Num(2), s.k[i]), Sin(s.theta.d[1][j]))]])]

\* the statements of update_experiment in the order the code runs them
UpdateExperimentStaleK(s, caller) ==
    QzStep(ThetaStep(WlStep(KStep(EnergyStep(s, caller), caller), caller), caller), caller)
UpdateExperiment(s, caller) ==
    QzStep(ThetaStep(KStep(WlStep(EnergyStep(s, caller), caller), caller), caller), caller)

\* ----------------------------------------------------------------- setters
\* A written Quantity q is [unit, ndim, val]: val a sequence (ndim = 1) or a
\* matrix (ndim = 2) of magnitudes in unit q.unit.
Qty(u, nd, v) == [unit |-> u, ndim |-> nd, val |-> v]

\* to_base_units().magnitude of a whole array
BaseSeq(a, u) == [i \in 1..Len(a) |-> ToBase(a[i], u)]
BaseMat(m, u) == Mat(m.nc, [i \in 1..Rows(m) |-> BaseSeq(m.d[i], u)])

\* energy.to('eV') raises DimensionalityError before anything is assigned
EnergySet(s, q) ==
    IF Dim(q.unit) # "energy" THEN Raise(s, "DimensionalityError")
    ELSE UpdateExperiment(
           [s EXCEPT !.energy = [i \in 1..Len(q.val) |-> Convert(q.val[i], q.unit, "eV")]],
           "energy")

WlSet(s, q) == UpdateExperiment([s EXCEPT !.wl = BaseSeq(q.val, q.unit)], "wl")

KSet(s, q) == UpdateExperiment([s EXCEPT !.k = BaseSeq(q.val, q.unit)], "k")

\* theta is written as an angle: its radian magnitude is given by the angle itself
ThetaSet(s, q) ==
    UpdateExperiment(
      [s EXCEPT !.theta = IF q.ndim < 2 THEN Tile(q.val, Len(s.energy)) ELSE q.val],
      "theta")

QzSetIntoK(s, q) ==
    UpdateExperiment(
      [s EXCEPT !.k = IF q.ndim < 2 THEN BaseSeq(q.val, q.unit) ELSE s.k,
                !.qz = IF q.ndim < 2 THEN Tile(BaseSeq(q.val, q.unit), Len(s.energy))
                       ELSE BaseMat(q.val, q.unit)],
      "qz")
QzSet(s, q) ==
    UpdateExperiment(
      [s EXCEPT !.qz = IF q.ndim < 2 THEN Tile(BaseSeq(q.val, q.unit), Len(s.energy))
                       ELSE BaseMat(q.val, q.unit)],
      "qz")

\* the wl getter: Q_(self._wl, u.m).to('nm')
WlGet(s) == Qty("nm", 1, [i \in 1..Len(s.wl) |-> Convert(s.wl[i], "m", "nm")])

\* ------------------------------------------------------------ polarization
\* keys of self.polarizations
Polarizations == {0, 1, 2, 3, 4}

Pol(i, o, fi, fo, x) ==
    [pol_in_state |-> i, pol_out_state |-> o, pol_in |-> fi, pol_out |-> fo, err |-> x]

\* the polarization factor a setter derives from a state key
PolFactor(state) == [factor_of |-> state]

\* validate the key, store it, recompute the factor
SetIncomingPolarization(p, state) ==
    IF p.err # "none" THEN p
    ELSE IF state \notin Polarizations THEN [p EXCEPT !.err = "InvalidState"]
    ELSE [p EXCEPT !.pol_in_state = state, !.pol_in = PolFactor(state)]

SetOutgoingPolarization(p, state) ==
    IF p.err # "none" THEN p
    ELSE IF state \notin Polarizations THEN [p EXCEPT !.err = "InvalidState"]
    ELSE [p EXCEPT !.pol_out_state = state, !.pol_out = PolFactor(state)]

SetPolarization(p, in_state, out_state) ==
    SetOutgoingPolarization(SetIncomingPolarization(p, in_state), out_state)

\* ---------------------------------------------------------------- get_hash
\* np.size(strain_map) > 1e6
SizeLimit == 1000000
\* strain_map.flatten()[0:1000000]
SliceEnd == 1000000

\* A strain map is an ndarray [shape, runs]: its elements in C order, run-length
\* encoded as <<value, count>> pairs (adjacent runs differ, counts are positive).
Arr(shape, runs) == [shape |-> shape, runs |-> runs]

\* np.size
Size(a) == IF Len(a.shape) = 1 THEN a.shape[1] ELSE a.shape[1] * a.shape[2]

RECURSIVE TakeRuns(_, _)
TakeRuns(runs, n) ==
    IF n <= 0 \/ runs = <<>> THEN <<>>
    ELSE LET h == Head(runs)
         IN  IF h[2] <= n THEN <<h>> \o TakeRuns(Tail(runs), n - h[2])
             ELSE << <<h[1], n>> >>

\* ndarray.flatten()
Flatten(a) == Arr(<<Size(a)>>, a.runs)

\* a[0:n]: the first n entries along the first axis
Slice(a, n) ==
    IF Len(a.shape) = 1
    THEN Arr(<<IF a.shape[1] < n THEN a.shape[1] ELSE n>>, TakeRuns(a.runs, n))
    ELSE LET r == IF a.shape[1] < n THEN a.shape[1] ELSE n
         IN  Arr(<<r, a.shape[2]>>, TakeRuns(a.runs, r * a.shape[2]))

TruncateNoFlatten(a) == IF Size(a) > SizeLimit THEN Slice(a, SliceEnd) ELSE a
Truncate(a) == IF Size(a) > SizeLimit THEN Slice(Flatten(a), SliceEnd) ELSE a

\* the sample's structural hash, self.S.get_hash(types='xray')
SGetHash(types) == <<"S", types>>

\* the digest of the parameter list: a function of the list's content and order
MakeHashMd5(param) == [md5_of |-> param]

\* kw is [given |-> whether strain_map is a keyword, map |-> its value]
GetHash(e, q, pi, po, strain_vectors, kw) ==
    LET param == <<pi, po, q, e, strain_vectors>>
        full  == IF kw.given THEN Append(param, Truncate(kw.map)) ELSE param
    IN  <<SGetHash("xray"), "_", MakeHashMd5(full)>>

\* ------------------------------------------------------------------ inputs
Seqs(S, lo, hi) == UNION {[1..n -> S] : n \in lo..hi}

\* 2-D arrays of 1..MaxLen rows: a first row, and below it rows of one value
Mats2D(S) ==
    UNION {{Mat(c, [i \in 1..r |-> IF i = 1 THEN a ELSE [j \in 1..c |-> x]]) :
               r \in 1..MaxLen, a \in [1..c -> S], x \in S} : c \in 1..MaxCols}

Mags == {Num(1), Num(2)}

\* 30 and 150 degrees: the same sine, on and off the principal branch of arcsin
Angles == {Ang(<<1, 2>>, TRUE), Ang(<<1, 2>>, FALSE)}

\* each quantity is written in a unit of its own dimension, and once in a unit
\* of another dimension
EnergyInputs == {Qty("eV", 1, v) : v \in Seqs(Mags, 0, MaxLen)}
                  \cup {Qty("nm", 1, <<Num(1)>>)}
WlInputs     == {Qty("nm", 1, v) : v \in Seqs({Num(3)}, 0, MaxLen)}
                  \cup {Qty("eV", 1, <<Num(1)>>)}
KInputs      == {Qty("1/nm", 1, v) : v \in Seqs({Num(1)}, 0, MaxLen)}
                  \cup {Qty("nm", 1, <<Num(1)>>)}
ThetaInputs  == {Qty("rad", 1, v) : v \in Seqs(Angles, 1, MaxCols)}
                  \cup {Qty("rad", 2, m) : m \in Mats2D(Angles)}
QzInputs     == {Qty("1/m", 1, v) : v \in Seqs(Mags, 1, MaxCols)}
                  \cup {Qty("1/m", 2, m) : m \in Mats2D(Mags)}
                  \cup {Qty("eV", 1, <<Num(1)>>)}

Callers == {"energy", "wl", "k", "theta", "qz"}

PolArgs == Polarizations \cup {5}

StrainVectors == {<<1, 2, 3>>, <<1>>}

\* an array of the given shape: p elements of value 1, then elements of value 2
TwoVal(shape, p) ==
    LET n == Size(Arr(shape, <<>>))
    IN  Arr(shape, IF p <= 0 THEN << <<2, n>> >>
                   ELSE IF p >= n THEN << <<1, n>> >>
                   ELSE << <<1, p>>, <<2, n - p>> >>)

MapShapes == {<<3>>, <<SizeLimit - 1>>, <<SizeLimit>>, <<SizeLimit + 1>>, <<2 * SizeLimit>>,
              <<1000, 1000>>, <<1000, 2000>>, <<2, SizeLimit>>}

NoMap == [given |-> FALSE, map |-> Arr(<<0>>, <<>>)]

StrainMaps == {NoMap} \cup
    {[given |-> TRUE, map |-> TwoVal(s, p)] :
        s \in MapShapes, p \in {0, 2, SizeLimit - 1, SizeLimit, SizeLimit + 1}}

\* ------------------------------------------------------------------- state
\* err is the exception the last call ended with, key what the last call returned
\* when it was get_hash, hash_in the arguments of that call.
\* last describes the last call: op ("init", "set", "readback", "update",
\* "set_polarization", "get_hash"); caller, the quantity written or the caller
\* string; conv, the written unit has the quantity's dimension; fits, a theta /
\* qz input has one row per stored energy, or is 1-D with an energy stored;
\* valid, both polarization keys are keys of the enumeration; ran, the call
\* entered update_experiment(caller); follows, the call came right after
\* update_experiment ran with the same caller (op "update"), or right after a
\* write of energy that was stored (op "readback").
Last(op, caller, conv, fits, valid, ran, follows) ==
    [op |-> op, caller |-> caller, conv |-> conv, fits |-> fits, valid |-> valid,
     ran |-> ran, follows |-> follows]

QuantityDim(caller) ==
    CASE caller = "energy" -> "energy"
      [] caller = "wl"     -> "length"
      [] caller \in {"k", "qz"} -> "wavenumber"
      [] caller = "theta"  -> "angle"

Fits(q, n) == n >= 1 /\ (q.ndim = 1 \/ Rows(q.val) = n)

\* __init__: the fields, then set_polarization(3, 0)
Init ==
    /\ energy = <<>>
    /\ wl = <<>>
    /\ k = <<>>
    /\ theta = Mat(1, << <<Ang(Num(0), TRUE)>> >>)
    /\ qz = Mat(1, << <<Num(0)>> >>)
    /\ pol_in_state = 3
    /\ pol_out_state = 0
    /\ pol_in = PolFactor(3)
    /\ pol_out = PolFactor(0)
    /\ err = "none"
    /\ last = Last("init", "none", TRUE, TRUE, TRUE, FALSE, FALSE)
    /\ hash_in = [sv |-> <<>>, kw |-> NoMap]
    /\ key = <<>>

Cur == St(energy, wl, k, theta, qz, "none")
CurPol == Pol(pol_in_state, pol_out_state, pol_in, pol_out, "none")

Commit(r, l) ==
    /\ energy' = r.energy
    /\ wl' = r.wl
    /\ k' = r.k
    /\ theta' = r.theta
    /\ qz' = r.qz
    /\ err' = r.err
    /\ last' = l
    /\ UNCHANGED <<pol, hash_in, key>>

SetEnergy ==
    \E q \in EnergyInputs :
        LET conv == Dim(q.unit) = QuantityDim("energy")
        IN  Commit(EnergySet(Cur, q), Last("set", "energy", conv, TRUE, TRUE, conv, FALSE))

SetWl ==
    \E q \in WlInputs :
        Commit(WlSet(Cur, q),
               Last("set", "wl", Dim(q.unit) = QuantityDim("wl"), TRUE, TRUE, TRUE, FALSE))

SetK ==
    \E q \in KInputs :
        Commit(KSet(Cur, q),
               Last("set", "k", Dim(q.unit) = QuantityDim("k"), TRUE, TRUE, TRUE, FALSE))

SetTheta ==
    \E q \in ThetaInputs :
        Commit(ThetaSet(Cur, q),
               Last("set", "theta", Dim(q.unit) = QuantityDim("theta"),
                    Fits(q, Len(energy)), TRUE, TRUE, FALSE))

SetQz ==
    \E q \in QzInputs :
        Commit(QzSet(Cur, q),
               Last("set", "qz", Dim(q.unit) = QuantityDim("qz"),
                    Fits(q, Len(energy)), TRUE, TRUE, FALSE))

\* x.wl = x.wl: the wl setter with the value the wl getter returns
ReadBackWl ==
    Commit(WlSet(Cur, WlGet(Cur)),
           Last("readback", "wl", TRUE, TRUE, TRUE, TRUE,
                last.op = "set" /\ last.caller = "energy" /\ last.conv))

\* a direct call of update_experiment
CallUpdateExperiment ==
    \E c \in Callers :
        Commit(UpdateExperiment(Cur, c),
               Last("update", c, TRUE, TRUE, TRUE, TRUE, last.ran /\ last.caller = c))

CallSetPolarization ==
    \E i \in PolArgs, o \in PolArgs :
        LET r == SetPolarization(CurPol, i, o)
        IN  /\ pol_in_state' = r.pol_in_state
            /\ pol_out_state' = r.pol_out_state
            /\ pol_in' = r.pol_in
            /\ pol_out' = r.pol_out
            /\ err' = r.err
            /\ last' = Last("set_polarization", "none", TRUE, TRUE,
                            i \in Polarizations /\ o \in Polarizations, FALSE, FALSE)
            /\ hash_in' = [sv |-> <<>>, kw |-> NoMap]
            /\ key' = <<>>
            /\ UNCHANGED store

CallGetHash ==
    \E sv \in StrainVectors, kw \in StrainMaps :
        /\ key' = GetHash(energy, qz, pol_in_state, pol_out_state, sv, kw)
        /\ hash_in' = [sv |-> sv, kw |-> kw]
        /\ err' = "none"
        /\ last' = Last("get_hash", "none", TRUE, TRUE, TRUE, FALSE, FALSE)
        /\ UNCHANGED <<store, pol>>

\* the quantity store written through its setters
Next == SetEnergy \/ SetWl \/ SetK \/ SetTheta \/ SetQz \/ ReadBackWl
Spec == Init /\ [][Next]_vars

\* the setters and direct calls of the propagation step
NextUpdate == SetEnergy \/ SetWl \/ SetK \/ SetTheta \/ SetQz \/ CallUpdateExperiment
SpecUpdate == Init /\ [][NextUpdate]_vars

\* polarization and cache keys
NextHash == CallSetPolarization \/ CallGetHash
SpecHash == Init /\ [][NextHash]_vars

\* ------------------------------------------------------------------ claims
WasWrite == last.op \in {"set", "readback"}

\* C1: after each setter call the stored energy, wavelength and wavenumber arrays
\* have equal length and the stored theta and qz matrices have equal shape.
C1_EqualShapes ==
    WasWrite =>
        /\ Len(energy) = Len(wl)
        /\ Len(wl) = Len(k)
        /\ Shape(theta) = Shape(qz)

\* C2: after any setter call that returned, for every row i and column j of the
\* stored theta and qz, qz[i,j] = 2 * k[i] * sin(theta[i,j]).  Entries whose
\* angle is nan (a qz beyond 2k was written) are left out: the claim is stated
\* for angles that exist.
C2_RowwiseConsistent ==
    (WasWrite /\ err = "none") =>
        \A i \in 1..Len(k) : \A j \in 1..qz.nc :
            (i <= Rows(qz) /\ i <= Rows(theta) /\ j <= theta.nc
               /\ theta.d[i][j] # NaNAngle) =>
                qz.d[i][j] = Mul(Mul(Num(2), k[i]), Sin(theta.d[i][j]))

\* C3: a setter given a value whose unit is not of the quantity's dimension
\* signals a conversion error and leaves all five stored fields as they were.
C3_ConversionErrorNoChange ==
    [][(last'.op = "set" /\ ~last'.conv) =>
          (err' = "DimensionalityError" /\ UNCHANGED store)]_vars

\* C4: a theta or qz write that cannot be brought to one row per stored energy
\* is rejected with an error, and a theta or qz write that signals an error
\* leaves all five stored fields as they were.
C4_MisfitRejectedNoPartialState ==
    [][(last'.op = "set" /\ last'.caller \in {"theta", "qz"}) =>
          /\ ~last'.fits => err' # "none"
          /\ err' # "none" => UNCHANGED store]_vars

\* C5: set_polarization with a key outside the enumeration in either argument
\* signals the invalid-state error and leaves pol_in_state, pol_out_state,
\* pol_in and pol_out as they were.
C5_InvalidStateNoChange ==
    [][(last'.op = "set_polarization" /\ ~last'.valid) =>
          (err' = "InvalidState" /\ UNCHANGED pol)]_vars

\* C6: a write to theta or to qz (the setter's update_experiment('theta') or
\* update_experiment('qz')) leaves the stored energy, wavelength and wavenumber
\* arrays unchanged.
C6_AngleWritesKeepTriad ==
    [][(last'.op = "set" /\ last'.caller \in {"theta", "qz"}) =>
          UNCHANGED <<energy, wl, k>>]_vars

C6_Witness ==
    /\ last.op = "set"
    /\ last.caller = "qz"
    /\ err = "none"
    /\ Len(energy) = 2
    /\ Rows(qz) = 2
    /\ qz.d[1][1] # Num(0)

\* C7: writing energy = E, reading wl back and writing wl with the value read
\* leaves the stored energy equal to E and the stored wavenumber as it was.
C7_RoundTrip ==
    [][(last'.op = "readback" /\ last'.follows) => (energy' = energy /\ k' = k)]_vars

C7_Witness ==
    /\ last.op = "readback"
    /\ last.follows
    /\ err = "none"
    /\ Len(energy) = 2
    /\ energy[1] # energy[2]

\* C8: update_experiment(c) called right after update_experiment(c), with no
\* write in between, leaves all five stored fields as they were.
C8_Idempotent ==
    [][(last'.op = "update" /\ last'.follows) => UNCHANGED store]_vars

\* the first n elements of the flattened array, as a 1-D array
FirstElements(a, n) == Arr(<<n>>, TakeRuns(a.runs, n))

\* C9: get_hash with a strain_map of more than 1,000,000 elements does not raise
\* and returns the key it returns for the first 1,000,000 elements of the
\* flattened map; a map of at most 1,000,000 elements enters the key as it is.
C9_HashTruncation ==
    (last.op = "get_hash" /\ hash_in.kw.given) =>
        LET m == hash_in.kw.map
            head == <<pol_in_state, pol_out_state, qz, energy, hash_in.sv>>
        IN  /\ err = "none"
            /\ Size(m) > 1000000 =>
                 key = GetHash(energy, qz, pol_in_state, pol_out_state, hash_in.sv,
                               [given |-> TRUE, map |-> FirstElements(m, 1000000)])
            /\ Size(m) <= 1000000 =>
                 key = <<SGetHash("xray"), "_", MakeHashMd5(Append(head, m))>>

C9_Witness ==
    /\ last.op = "get_hash"
    /\ hash_in.kw.given
    /\ hash_in.kw.map.shape = <<1000, 2000>>
    /\ hash_in.kw.map.runs = << <<1, 1000001>>, <<2, 999999>> >>
    /\ key[3].md5_of[6].shape = <<1000000>>

\* wl[0] * q / (4 pi) lies in [0, 1]
InUnitRange(w, q) ==
    LET x == Div(Div(Mul(w, q), PI), Num(4))
    IN  IsFinite(x) /\ Leq(Num(0), x) /\ Leq(x, Num(1))

====
